---- MODULE Spec2Model ----
(***************************************************************************)
(* fdr_bh of src/test_fdr.py: the Benjamini-Hochberg correction of a       *)
(* vector of p-values, together with the literal arrays the test scripts   *)
(* call it on; further down, remove_transition27.py and the delimiter      *)
(* check of validate_matlab_script.py.                                     *)
(*                                                                         *)
(* The p-values, q, the thresholds and the adjusted values are IEEE-754    *)
(* binary64 numbers in the program.  A non-negative binary64 number is     *)
(* modelled exactly, as <<e, m3, m2, m1, m0>>: the 53-bit significand      *)
(* M = m3*2^42 + m2*2^28 + m1*2^14 + m0 (2^52 <= M < 2^53) and the         *)
(* exponent e of its last bit, the value being M * 2^e.  Division and      *)
(* multiplication round to nearest, ties to even, as the hardware does.    *)
(* Subnormal numbers, overflow and negative numbers do not occur for the   *)
(* inputs of the model.                                                    *)
(***************************************************************************)
EXTENDS Integers, Sequences, FiniteSets

\* Longest p-value vector drawn from the grid.
MaxLen == 3
\* Grid inputs are the decimal literals a/Scale, a \in 0..Scale+1.
Scale == 2

\* One limb of a significand holds 14 bits.
Base == 2^14

\* 0.0 (and the integer 0 the code returns as crit_p: 0 == 0.0 in Python).
Zero == <<-5000, 0, 0, 0, 0>>

\* np.nan: only ever tested with np.isnan, never ordered.
NaN == <<5000, 0, 0, 0, 0>>

\* The numerator that stands for a missing entry in an input literal.
Missing == -1

\* A local the code has not assigned yet.
Unset == <<>>

(***************************************************************************)
(* binary64 arithmetic                                                     *)
(***************************************************************************)

\* the one element of a one-element set: The({F(v) : v \in {e}}) is F(e), with
\* e evaluated once
The(S) == CHOOSE v \in S : TRUE

\* a/b scaled by a power of two into [1, 2): <<a', b', e>>, a/b = (a'/b') * 2^e.
RECURSIVE NormDiv(_, _, _)
NormDiv(a, b, e) ==
    IF a < b THEN NormDiv(2 * a, b, e - 1)
    ELSE IF a >= 2 * b THEN NormDiv(a, 2 * b, e + 1)
    ELSE <<a, b, e>>

\* significand <<m3, m2, m1, m0>> plus one unit in the last place
Inc(m) ==
    LET v0 == m[4] + 1
        v1 == m[3] + (v0 \div Base)
        v2 == m[2] + (v1 \div Base)
        v3 == m[1] + (v2 \div Base)
    IN  <<v3, v2 % Base, v1 % Base, v0 % Base>>

\* the binary64 number of significand m and exponent e, rounded up or not
Round(e, m, up) ==
    IF ~up THEN <<e, m[1], m[2], m[3], m[4]>>
    ELSE The({IF n[1] = 2^11 THEN <<e + 1, 2^10, 0, 0, 0>>
              ELSE <<e, n[1], n[2], n[3], n[4]>> : n \in {Inc(m)}})

\* the first 53 bits of the quotient n[1]/n[2] in [1, 2), and the remainder
DivLimbs(n) ==
    LET t3 == (n[1] - n[2]) * 2^10
        t2 == (t3 % n[2]) * Base
        t1 == (t2 % n[2]) * Base
        t0 == (t1 % n[2]) * Base
    IN  <<2^10 + (t3 \div n[2]), t2 \div n[2], t1 \div n[2], t0 \div n[2], t0 % n[2]>>

DivRound(n, d) ==
    Round(n[3] - 52, <<d[1], d[2], d[3], d[4]>>,
          2 * d[5] > n[2] \/ (2 * d[5] = n[2] /\ d[4] % 2 = 1))

\* a / b for integers a >= 0, b > 0: Python's true division, which is also the
\* value of the decimal literal a/b (both are the nearest binary64 number).
FDiv(a, b) ==
    IF a = 0 THEN Zero
    ELSE The({The({DivRound(n, d) : d \in {DivLimbs(n)}}) : n \in {NormDiv(a, b, 0)}})

\* the columns of the schoolbook product of two significands
Cols(x, y) ==
    << x[5] * y[5],
       x[5] * y[4] + x[4] * y[5],
       x[5] * y[3] + x[4] * y[4] + x[3] * y[5],
       x[5] * y[2] + x[4] * y[3] + x[3] * y[4] + x[2] * y[5],
       x[4] * y[2] + x[3] * y[3] + x[2] * y[4],
       x[3] * y[2] + x[2] * y[3],
       x[2] * y[2] >>

\* the limbs of the 106-bit product, least significant first, and a 0 above
Carry(c) ==
    LET t1 == c[1]
        t2 == c[2] + (t1 \div Base)
        t3 == c[3] + (t2 \div Base)
        t4 == c[4] + (t3 \div Base)
        t5 == c[5] + (t4 \div Base)
        t6 == c[6] + (t5 \div Base)
        t7 == c[7] + (t6 \div Base)
    IN  The({<<t1 % Base, t2 % Base, t3 % Base, t4 % Base, t5 % Base, t6 % Base,
               t % Base, t \div Base, 0>> : t \in {t7}})

\* the product p of two significands, cut to 53 bits and rounded; the last
\* bit of the product of the two units is at e
MulRound(e, p) ==
    LET s == IF p[8] >= 2^7 THEN 11 ELSE 10
        lim(j) == (p[j + 4] \div 2^s) + (p[j + 5] % 2^s) * 2^(14 - s)
        guard == (p[4] \div 2^(s - 1)) % 2
        sticky == (p[4] % 2^(s - 1)) # 0 \/ p[3] # 0 \/ p[2] # 0 \/ p[1] # 0
    IN  Round(e + 42 + s, <<lim(3), lim(2), lim(1), lim(0)>>,
              guard = 1 /\ (sticky \/ lim(0) % 2 = 1))

\* x * y in binary64
FMul(x0, y0) ==
    The({IF x = Zero \/ y = Zero THEN Zero
         ELSE The({MulRound(x[1] + y[1], p) : p \in {Carry(Cols(x, y))}}) :
         x \in {x0}, y \in {y0}})

RECURSIVE LexLeq(_, _, _)
LexLeq(x, y, j) ==
    IF j > 5 THEN TRUE
    ELSE IF x[j] < y[j] THEN TRUE
    ELSE IF x[j] > y[j] THEN FALSE
    ELSE LexLeq(x, y, j + 1)

\* x <= y for two binary64 numbers, neither of them NaN
FLeq(x, y) == LexLeq(x, y, 1)

FLess(x, y) == x # y /\ FLeq(x, y)

\* Python's min(x, y): the first argument unless the second is smaller
FMin(x, y) == IF FLess(y, x) THEN y ELSE x

One == FDiv(1, 1)

\* the array np.array([...]) of the decimal literals nums[j]/den
Lit(nums, den) ==
    [j \in 1..Len(nums) |-> IF nums[j] = Missing THEN NaN ELSE FDiv(nums[j], den)]

(***************************************************************************)
(* The calls: the grid of small inputs and the arrays of the test script   *)
(***************************************************************************)

GridNums == UNION {[1..n -> (0..(Scale + 1)) \cup {Missing}] : n \in 0..MaxLen}

GridCalls == {[nums |-> s, den |-> Scale, q |-> b] : s \in GridNums, b \in 0..Scale}

\* p_vals_1 .. p_vals_4 of src/test_fdr.py, each called with q = 0.05
TestCalls ==
    { [nums |-> <<1, 8, 39, 41, 42, 60, 74, 205, 212, 216>>, den |-> 1000, q |-> 50],
      [nums |-> <<6, 8, 10, 15, 20, 30, 40, 50, 60, 70, 80>>, den |-> 100, q |-> 5],
      [nums |-> <<1, 2, 3, 4, 5, 6, 7, 8, 9, 10>>, den |-> 10000, q |-> 500],
      [nums |-> <<1, 2, 3, 10, 15, 25, 35, 50, 65, 80, 90>>, den |-> 100, q |-> 5] }

\* Inputs on which a p-value meets its threshold (k/m)*q exactly in the reals.
BoundaryCalls ==
    { [nums |-> <<1, 2, 4>>, den |-> 100, q |-> 3],
      [nums |-> <<29, 30, 31, 32, 33, 34, 35, 500, 600, 700>>, den |-> 1000, q |-> 50] }

Calls == GridCalls \cup TestCalls \cup BoundaryCalls

\* the longest input
MaxRanks ==
    LET RECURSIVE Longest(_)
        Longest(C) == IF C = {} THEN 0
                      ELSE LET c == CHOOSE x \in C : TRUE
                               rest == Longest(C \ {c})
                           IN  IF Len(c.nums) > rest THEN Len(c.nums) ELSE rest
    IN  Longest({[nums |-> <<>>]} \cup [nums : {c.nums : c \in TestCalls \cup BoundaryCalls}])
        + MaxLen

\* the p-values and levels q of the calls, as binary64 numbers
Operands ==
    {FDiv(c.q, c.den) : c \in Calls}
        \cup UNION {{FDiv(c.nums[j], c.den) : j \in {l \in 1..Len(c.nums) : c.nums[l] # Missing}} :
                    c \in Calls}

\* k / n for the ranks k and lengths n that occur, computed once
RatioTable == [k \in 1..MaxRanks, n \in 1..MaxRanks |-> FDiv(k, n)]

\* (k / n) * x for the operands that occur, computed once
ProductTable == [k \in 1..MaxRanks, n \in 1..MaxRanks, x \in Operands |-> FMul(RatioTable[k, n], x)]

\* (k / n) * x: first the quotient of the two integers, then the product
Scaled(k, n, x) ==
    IF k \in 1..MaxRanks /\ n \in 1..MaxRanks /\ x \in Operands THEN ProductTable[k, n, x]
    ELSE FMul(FDiv(k, n), x)

(***************************************************************************)
(* fdr_bh, step by step                                                    *)
(***************************************************************************)

\* valid_mask = ~np.isnan(pvals), as the positions it selects, in order
ValidPositions(p) ==
    LET RECURSIVE pos(_)
        pos(j) == IF j > Len(p) THEN <<>>
                  ELSE IF p[j] = NaN THEN pos(j + 1)
                  ELSE <<j>> \o pos(j + 1)
    IN  pos(1)

\* valid_pvals = pvals[valid_mask]
ValidPvals(p) == LET vp == ValidPositions(p) IN [k \in 1..Len(vp) |-> p[vp[k]]]

\* The results np.argsort(v) may return: every order of the positions of v
\* that lists the values ascending (the default sort kind is not stable, so
\* the order among equal values is not specified).
RECURSIVE SortOrders(_, _)
SortOrders(v, left) ==
    IF left = {} THEN {<<>>}
    ELSE UNION {{<<j>> \o rest : rest \in SortOrders(v, left \ {j})} :
                j \in {c \in left : \A d \in left : FLeq(v[c], v[d])}}

ArgSort(v) == SortOrders(v, 1..Len(v))

\* sorted_pvals = valid_pvals[sorted_idx]
Take(v, idx) == [k \in 1..Len(idx) |-> v[idx[k]]]

\* the thresholds without the rank scaling: q for every rank
BhThresholdUnscaled(n, qq) == [k \in 1..n |-> qq]

\* bh_threshold = (ranks / n_valid) * q
BhThreshold(n, qq) == [k \in 1..n |-> Scaled(k, n, qq)]

\* the mask with < in place of <=
SignificantMaskStrict(sp, qq) ==
    LET thr == BhThreshold(Len(sp), qq) IN [k \in 1..Len(sp) |-> FLess(sp[k], thr[k])]

\* significant_mask = sorted_pvals <= bh_threshold
SignificantMask(sp, qq) ==
    LET thr == BhThreshold(Len(sp), qq) IN [k \in 1..Len(sp) |-> FLeq(sp[k], thr[k])]

\* np.where(significant_mask)[0][0]: the first significant rank, not the last
FirstSignificant(mask) ==
    IF \E k \in 1..Len(mask) : mask[k]
    THEN CHOOSE k \in 1..Len(mask) : mask[k] /\ \A l \in 1..(k - 1) : ~mask[l]
    ELSE 0

\* np.where(significant_mask)[0][-1], as a rank; 0 when the mask has no True
LastSignificant(mask) ==
    IF \E k \in 1..Len(mask) : mask[k]
    THEN CHOOSE k \in 1..Len(mask) : mask[k] /\ \A l \in (k + 1)..Len(mask) : ~mask[l]
    ELSE 0

\* crit_p without the sentinel: the smallest p-value when no rank passes
CritAtNoSentinel(sp, k) == IF k = 0 THEN sp[1] ELSE sp[k]

\* crit_p of the if/else on significant_mask.any(), k the last significant rank
CritAt(sp, k) == IF k = 0 THEN Zero ELSE sp[k]

\* h_valid with sorted_pvals < crit_p in place of <=
HValidAtStrict(sp, k) == [l \in 1..Len(sp) |-> k # 0 /\ FLess(sp[l], sp[k])]

\* h_valid of the if/else on significant_mask.any(), k the last significant rank
HValidAt(sp, k) == [l \in 1..Len(sp) |-> k # 0 /\ FLeq(sp[l], sp[k])]

CritP(sp, qq) == CritAt(sp, LastSignificant(SignificantMask(sp, qq)))

HValid(sp, qq) == HValidAt(sp, LastSignificant(SignificantMask(sp, qq)))

\* the last rank started at 1.0, not at its raw p-value
AdjInitOnes(sp) == [k \in 1..Len(sp) |-> IF k = Len(sp) THEN One ELSE NaN]

\* adj_p_sorted = np.full(n_valid, np.nan); adj_p_sorted[-1] = sorted_pvals[-1]
AdjInit(sp) == [k \in 1..Len(sp) |-> IF k = Len(sp) THEN sp[k] ELSE NaN]

\* the loop body without the minimum with the next rank
AdjStepNoMin(sp, adj, k) == [adj EXCEPT ![k] = FMin(One, Scaled(Len(sp), k, sp[k]))]

\* one pass of the loop body, at rank k = i + 1:
\* adj_p_sorted[i] = min(1.0, min((n_valid / (i + 1)) * sorted_pvals[i], adj_p_sorted[i + 1]))
AdjStep(sp, adj, k) ==
    [adj EXCEPT ![k] = FMin(One, FMin(Scaled(Len(sp), k, sp[k]), adj[k + 1]))]

\* the loop for i in range(n_valid - 2, -1, -1), from rank k down to rank 1
RECURSIVE AdjLoop(_, _, _)
AdjLoop(sp, adj, k) ==
    IF k = 0 THEN adj ELSE The({AdjLoop(sp, a, k - 1) : a \in {AdjStep(sp, adj, k)}})

AdjPSorted(sp) == AdjLoop(sp, AdjInit(sp), Len(sp) - 1)

\* the values left in sorted order: out[:len(vals)] = vals
ScatterInOrder(idx, vals, n, fill) == [j \in 1..n |-> IF j <= Len(vals) THEN vals[j] ELSE fill]

\* out = np.full(n, fill); out[idx] = vals
Scatter(idx, vals, n, fill) ==
    [j \in 1..n |-> IF \E k \in 1..Len(idx) : idx[k] = j
                    THEN vals[CHOOSE k \in 1..Len(idx) : idx[k] = j]
                    ELSE fill]

\* the values put back at the first n_valid positions of p, not at the
\* valid ones
UnsortedPacked(p, idx, vals, fill) ==
    Scatter([k \in 1..Len(idx) |-> k], Scatter(idx, vals, Len(idx), fill), Len(p), fill)

\* lines 44-56: vals, in sorted order, put back in the order of the valid
\* entries and then at the valid positions of p, fill elsewhere
Unsorted(p, idx, vals, fill) ==
    Scatter(ValidPositions(p), Scatter(idx, vals, Len(idx), fill), Len(p), fill)

\* What fdr_bh(p, qq) returns when np.argsort returns idx.
FdrBh(p, qq, idx) ==
    IF Len(p) = 0 THEN [h |-> <<>>, crit_p |-> Zero, adj_p |-> <<>>]
    ELSE IF Len(ValidPvals(p)) = 0
    THEN [h |-> [j \in 1..Len(p) |-> FALSE], crit_p |-> NaN,
          adj_p |-> [j \in 1..Len(p) |-> NaN]]
    ELSE The({The({[h |-> Unsorted(p, idx, HValidAt(sp, k), FALSE),
                    crit_p |-> CritAt(sp, k),
                    adj_p |-> Unsorted(p, idx, AdjPSorted(sp), NaN)] :
                   k \in {LastSignificant(SignificantMask(sp, qq))}}) :
              sp \in {Take(ValidPvals(p), idx)}})

VARIABLES pc, pvals, q, sorted_idx, crit_p, h_valid, adj_p_sorted, i, h, adj_p

\* The state of the two scripts that read the MATLAB file: the file on disk,
\* and the locals of remove_transition27.py and of analyze_matlab_script.
VARIABLES file, content, changes, printed, count_before, original_length, delimiter_pass, checks

fdr_vars == <<pvals, q, sorted_idx, crit_p, h_valid, adj_p_sorted, i, h, adj_p>>

script_vars ==
    <<file, content, changes, printed, count_before, original_length,
      delimiter_pass, checks>>

vars == <<pc, fdr_vars, script_vars>>

\* no script is running
ScriptsIdle ==
    /\ file = Unset /\ content = Unset /\ changes = Unset /\ printed = Unset
    /\ count_before = 0 /\ original_length = 0
    /\ delimiter_pass = Unset /\ checks = Unset

\* fdr_bh is not running
FdrIdle ==
    /\ pvals = Unset /\ q = Unset /\ sorted_idx = Unset /\ crit_p = Unset
    /\ h_valid = Unset /\ adj_p_sorted = Unset /\ i = 0 /\ h = Unset /\ adj_p = Unset

valid_pvals == ValidPvals(pvals)
n_valid == Len(valid_pvals)
sorted_pvals == Take(valid_pvals, sorted_idx)

Init ==
    /\ \E c \in Calls : pvals = Lit(c.nums, c.den) /\ q = FDiv(c.q, c.den)
    /\ pc = "call"
    /\ sorted_idx = Unset /\ crit_p = Unset /\ h_valid = Unset
    /\ adj_p_sorted = Unset /\ i = 0 /\ h = Unset /\ adj_p = Unset
    /\ ScriptsIdle

\* the early return with one-entry arrays in place of the empty ones
ReturnEmptyOneEntry ==
    /\ pc = "call" /\ Len(pvals) = 0
    /\ h' = <<FALSE>> /\ crit_p' = Zero /\ adj_p' = <<NaN>>
    /\ pc' = "done"
    /\ UNCHANGED <<pvals, q, sorted_idx, h_valid, adj_p_sorted, i, script_vars>>

\* if len(pvals) == 0: return np.array([]), 0, np.array([])
ReturnEmpty ==
    /\ pc = "call" /\ Len(pvals) = 0
    /\ h' = <<>> /\ crit_p' = Zero /\ adj_p' = <<>>
    /\ pc' = "done"
    /\ UNCHANGED <<pvals, q, sorted_idx, h_valid, adj_p_sorted, i, script_vars>>

\* if n_valid == 0: return np.zeros(..., bool), np.nan, np.full(..., np.nan)
ReturnAllNaN ==
    /\ pc = "call" /\ Len(pvals) > 0 /\ n_valid = 0
    /\ h' = [j \in 1..Len(pvals) |-> FALSE]
    /\ crit_p' = NaN
    /\ adj_p' = [j \in 1..Len(pvals) |-> NaN]
    /\ pc' = "done"
    /\ UNCHANGED <<pvals, q, sorted_idx, h_valid, adj_p_sorted, i, script_vars>>

\* sorted_idx = np.argsort(valid_pvals)
Sort ==
    /\ pc = "call" /\ n_valid > 0
    /\ sorted_idx' \in ArgSort(valid_pvals)
    /\ pc' = "sorted"
    /\ UNCHANGED <<pvals, q, crit_p, h_valid, adj_p_sorted, i, h, adj_p, script_vars>>

\* the thresholds, the mask and the branch not significant_mask.any()
NoneSignificant ==
    /\ pc = "sorted"
    /\ LastSignificant(SignificantMask(sorted_pvals, q)) = 0
    /\ crit_p' = CritP(sorted_pvals, q)
    /\ h_valid' = HValid(sorted_pvals, q)
    /\ pc' = "decided"
    /\ UNCHANGED <<pvals, q, sorted_idx, adj_p_sorted, i, h, adj_p, script_vars>>

\* the thresholds, the mask and the else branch
SomeSignificant ==
    /\ pc = "sorted"
    /\ LastSignificant(SignificantMask(sorted_pvals, q)) # 0
    /\ crit_p' = CritP(sorted_pvals, q)
    /\ h_valid' = HValid(sorted_pvals, q)
    /\ pc' = "decided"
    /\ UNCHANGED <<pvals, q, sorted_idx, adj_p_sorted, i, h, adj_p, script_vars>>

\* adj_p_sorted[-1] = sorted_pvals[-1], and the loop variable at n_valid - 2
BeginAdjust ==
    /\ pc = "decided"
    /\ adj_p_sorted' = AdjInit(sorted_pvals)
    /\ i' = n_valid - 1
    /\ pc' = "loop"
    /\ UNCHANGED <<pvals, q, sorted_idx, crit_p, h_valid, h, adj_p, script_vars>>

\* one iteration of for i in range(n_valid - 2, -1, -1); i here is the rank i + 1
AdjustStep ==
    /\ pc = "loop" /\ i >= 1
    /\ adj_p_sorted' = AdjStep(sorted_pvals, adj_p_sorted, i)
    /\ i' = i - 1
    /\ UNCHANGED <<pc, pvals, q, sorted_idx, crit_p, h_valid, h, adj_p, script_vars>>

\* unsort, insert back, return h, crit_p, adj_p
Return ==
    /\ pc = "loop" /\ i = 0
    /\ h' = Unsorted(pvals, sorted_idx, h_valid, FALSE)
    /\ adj_p' = Unsorted(pvals, sorted_idx, adj_p_sorted, NaN)
    /\ pc' = "done"
    /\ UNCHANGED <<pvals, q, sorted_idx, crit_p, h_valid, adj_p_sorted, i, script_vars>>

Next ==
    \/ ReturnEmpty
    \/ ReturnAllNaN
    \/ Sort
    \/ NoneSignificant
    \/ SomeSignificant
    \/ BeginAdjust
    \/ AdjustStep
    \/ Return

Spec == Init /\ [][Next]_vars

\* the step-by-step run returns what FdrBh computes in one go
RunIsFdrBh ==
    pc = "done" =>
        \E idx \in (IF n_valid = 0 THEN {<<>>} ELSE {sorted_idx}) :
            FdrBh(pvals, q, idx) = [h |-> h, crit_p |-> crit_p, adj_p |-> adj_p]

(***************************************************************************)
(* remove_transition27.py                                                  *)
(*                                                                         *)
(* The text of the MATLAB file is a sequence of lines, each ended by a     *)
(* newline and each one of the sample lines below; the five regular        *)
(* expressions of the script are modelled by what they match and remove    *)
(* on such a text.                                                         *)
(***************************************************************************)

MaxLines == 3

MergeLine == "% Merge Transition-27 scores"
MatchLine == "transition_match_27 = idx;"
AssignLine == "analysis_data.Transition_27 = transition_scores_27(transition_match_27);"
PrintLine == "fprintf('OOCV-27 done');"
InitLine == "r_corr_27 = [];"
CorrLine == "% CORRELATIONS WITH TRANSITION-27"
CommentLine == "% next section"
BlankLine == ""
CodeLine == "y = 1;"
CorrPrintLine == "fprintf('CORRELATIONS done');"

SampleLines ==
    {MergeLine, MatchLine, AssignLine, PrintLine, InitLine, CorrLine,
     CommentLine, BlankLine, CodeLine, CorrPrintLine}

\* a file in which each of the five patterns matches, and one in which
\* only the blocks of patterns 1 and 5 occur
SampleFiles ==
    {<<MergeLine, MatchLine, PrintLine, InitLine, CorrLine, CommentLine>>,
     <<CodeLine, MergeLine, CodeLine, AssignLine, CodeLine, BlankLine, CorrLine, CodeLine,
       BlankLine, BlankLine, CommentLine>>}

Files == UNION {[1..n -> SampleLines] : n \in 0..MaxLines} \cup SampleFiles

StartsComment(line) == line \in {MergeLine, CorrLine, CommentLine}

StartsFprintf(line) == line \in {PrintLine, CorrPrintLine}

\* the matches of (Transition.27|Transition_27|OOCV.27|transition_27|Trans.27),
\* case ignored, in one line
References(line) == IF line \in {MergeLine, AssignLine, PrintLine, CorrLine} THEN 1 ELSE 0

RECURSIVE CountReferences(_)
CountReferences(text) ==
    IF text = <<>> THEN 0 ELSE References(Head(text)) + CountReferences(Tail(text))

\* the smallest member of a non-empty set of line numbers, 0 of the empty set
First(S) == IF S = {} THEN 0 ELSE CHOOSE a \in S : \A b \in S : a <= b

\* pattern1, "% Merge.*?Transition.*?27.*?\n.*?transition_match_27.*?" up to
\* the lookahead (?=\n%|\nfprintf|\n\n): the block that starts at the merge
\* line a runs to the first line c, at or after the first later line with
\* transition_match_27, that a comment, an fprintf or an empty line follows;
\* 0 when there is no such line
MergeEnd(text, a) ==
    LET b == First({l \in (a + 1)..Len(text) : text[l] \in {MatchLine, AssignLine}})
    IN  IF text[a] # MergeLine \/ b = 0 THEN 0
        ELSE First({c \in b..(Len(text) - 1) :
                        \/ StartsComment(text[c + 1])
                        \/ StartsFprintf(text[c + 1])
                        \/ text[c + 1] = BlankLine})

\* re.search(pattern1, content)
Search1(text) == \E a \in 1..Len(text) : MergeEnd(text, a) # 0

\* re.sub(pattern1, '', content) from line j on: the newline of the last
\* line of a block is not part of the match, so an empty line stays
RECURSIVE Sub1(_, _)
Sub1(text, j) ==
    IF j > Len(text) THEN <<>>
    ELSE IF MergeEnd(text, j) # 0
         THEN <<BlankLine>> \o Sub1(text, MergeEnd(text, j) + 1)
         ELSE <<text[j]>> \o Sub1(text, j + 1)

IsPrint(line) == line = PrintLine

NotAssign(line) == line # AssignLine

NotPrint(line) == line # PrintLine

\* re.sub(pattern2, '', content): the assignment lines, newline included
Sub2(text) == SelectSeq(text, NotAssign)

\* re.findall(pattern3, content): the fprintf lines naming OOCV-27
FindAll3(text) == SelectSeq(text, IsPrint)

\* re.sub(pattern3, '', content)
Sub3(text) == SelectSeq(text, NotPrint)

IsInit(line) == line = InitLine

\* re.findall(pattern4, content): "^\s*" takes the empty lines before the
\* declaration into the match, so there is one match per declaration
FindAll4(text) == SelectSeq(text, IsInit)

RECURSIVE DropBlankTail(_)
DropBlankTail(out) ==
    IF out # <<>> /\ out[Len(out)] = BlankLine
    THEN DropBlankTail(SubSeq(out, 1, Len(out) - 1))
    ELSE out

\* re.sub(pattern4, '', content) from line j on, out the text kept so far
RECURSIVE Sub4(_, _, _)
Sub4(text, j, out) ==
    IF j > Len(text) THEN out
    ELSE IF text[j] = InitLine THEN Sub4(text, j + 1, DropBlankTail(out))
         ELSE Sub4(text, j + 1, Append(out, text[j]))

\* the lookahead (?=\n%|\n\n\s*%|\nfprintf\('CORR) of pattern5 after line c
Ahead5(text, c) ==
    \/ StartsComment(text[c + 1])
    \/ text[c + 1] = CorrPrintLine
    \/ \E d \in (c + 2)..Len(text) :
           /\ StartsComment(text[d])
           /\ \A l \in (c + 1)..(d - 1) : text[l] = BlankLine

\* pattern5: the block that starts at the correlation header a runs to the
\* first line the lookahead holds after; 0 when there is none
CorrEnd(text, a) ==
    IF text[a] # CorrLine THEN 0
    ELSE First({c \in a..(Len(text) - 1) : Ahead5(text, c)})

\* len(re.findall(pattern5, content)) from line j on
RECURSIVE FindAll5(_, _)
FindAll5(text, j) ==
    IF j > Len(text) THEN 0
    ELSE IF CorrEnd(text, j) # 0 THEN 1 + FindAll5(text, CorrEnd(text, j) + 1)
         ELSE FindAll5(text, j + 1)

\* re.sub(pattern5, '', content) from line j on
RECURSIVE Sub5(_, _)
Sub5(text, j) ==
    IF j > Len(text) THEN <<>>
    ELSE IF CorrEnd(text, j) # 0
         THEN <<BlankLine>> \o Sub5(text, CorrEnd(text, j) + 1)
         ELSE <<text[j]>> \o Sub5(text, j + 1)

RemoveInit ==
    /\ file \in Files
    /\ pc = "start"
    /\ content = Unset /\ changes = Unset /\ printed = Unset
    /\ count_before = 0 /\ original_length = 0
    /\ delimiter_pass = Unset /\ checks = Unset
    /\ FdrIdle

\* lines 10-20: read the file, count the lines and the references, print
\* the count
ReadFile ==
    /\ pc = "start"
    /\ content' = file
    /\ original_length' = Len(file)
    /\ count_before' = CountReferences(file)
    /\ printed' = [found |-> CountReferences(file)]
    /\ changes' = <<>>
    /\ pc' = "read"
    /\ UNCHANGED <<file, delimiter_pass, checks, fdr_vars>>

\* lines 22-26: the merge section
Pattern1 ==
    /\ pc = "read"
    /\ IF Search1(content)
       THEN /\ changes' = Append(changes, <<0, "Removed Transition-27 merge section">>)
            /\ content' = Sub1(content, 1)
       ELSE UNCHANGED <<changes, content>>
    /\ pc' = "pattern1"
    /\ UNCHANGED <<file, printed, count_before, original_length, delimiter_pass, checks, fdr_vars>>

\* lines 28-31: the assignments; the change is recorded whether or not one
\* was there
Pattern2 ==
    /\ pc = "pattern1"
    /\ content' = Sub2(content)
    /\ changes' = Append(changes, <<0, "Removed Transition_27 data assignment">>)
    /\ pc' = "pattern2"
    /\ UNCHANGED <<file, printed, count_before, original_length, delimiter_pass, checks, fdr_vars>>

\* lines 33-38: the fprintf statements
Pattern3 ==
    /\ pc = "pattern2"
    /\ IF FindAll3(content) # <<>>
       THEN /\ changes' = Append(changes, <<Len(FindAll3(content)),
                                            "fprintf statements about Transition-27">>)
            /\ content' = Sub3(content)
       ELSE UNCHANGED <<changes, content>>
    /\ pc' = "pattern3"
    /\ UNCHANGED <<file, printed, count_before, original_length, delimiter_pass, checks, fdr_vars>>

\* lines 40-45: the declarations of the _27 variables
Pattern4 ==
    /\ pc = "pattern3"
    /\ IF FindAll4(content) # <<>>
       THEN /\ changes' = Append(changes, <<Len(FindAll4(content)),
                                            "_27 variable initializations">>)
            /\ content' = Sub4(content, 1, <<>>)
       ELSE UNCHANGED <<changes, content>>
    /\ pc' = "pattern4"
    /\ UNCHANGED <<file, printed, count_before, original_length, delimiter_pass, checks, fdr_vars>>

\* lines 47-52: the correlation blocks
Pattern5 ==
    /\ pc = "pattern4"
    /\ IF FindAll5(content, 1) # 0
       THEN /\ changes' = Append(changes, <<FindAll5(content, 1),
                                            "Transition-27 correlation blocks">>)
            /\ content' = Sub5(content, 1)
       ELSE UNCHANGED <<changes, content>>
    /\ pc' = "pattern5"
    /\ UNCHANGED <<file, printed, count_before, original_length, delimiter_pass, checks, fdr_vars>>

\* what lines 54-72 print
Printed ==
    [found |-> count_before,
     removed |-> count_before - CountReferences(content),
     remaining |-> CountReferences(content),
     changes |-> changes,
     lines |-> <<original_length, Len(content), original_length - Len(content)>>,
     notice |-> "DRY RUN - File not modified"]

\* the report followed by the write-back of lines 68-69, were it not
\* commented out
ReportAndWrite ==
    /\ pc = "pattern5"
    /\ printed' = Printed
    /\ file' = content
    /\ pc' = "done"
    /\ UNCHANGED <<content, changes, count_before, original_length, delimiter_pass, checks, fdr_vars>>

\* lines 54-72: the report; the write-back is a comment
Report ==
    /\ pc = "pattern5"
    /\ printed' = Printed
    /\ pc' = "done"
    /\ UNCHANGED <<file, content, changes, count_before, original_length, delimiter_pass, checks, fdr_vars>>

RemoveNext ==
    \/ ReadFile
    \/ Pattern1
    \/ Pattern2
    \/ Pattern3
    \/ Pattern4
    \/ Pattern5
    \/ Report

RemoveSpec == RemoveInit /\ [][RemoveNext]_vars

(***************************************************************************)
(* analyze_matlab_script of validate_matlab_script.py: the delimiter       *)
(* balance check and its place in the summary.  Here the text of the file  *)
(* is a sequence of characters.                                            *)
(***************************************************************************)

MaxChars == 3

Newline == "\n"

Characters == {"(", ")", "[", "]", "{", "}", "x", Newline}

\* texts longer than MaxChars: nested, interleaved and reversed delimiters
SampleScripts ==
    {<<"x", "(", "[", "{", "}", "]", ")", Newline>>,
     <<"(", "[", ")", "]">>,
     <<"}", "x", "{", Newline, "(", ")">>}

Scripts == UNION {[1..n -> Characters] : n \in 0..MaxChars} \cup SampleScripts

\* content.count(ch)
Count(text, ch) == Cardinality({j \in 1..Len(text) : text[j] = ch})

\* len(f.readlines()): the newlines, and the rest after the last of them
TotalLines(text) ==
    Count(text, Newline) + (IF text # <<>> /\ text[Len(text)] # Newline THEN 1 ELSE 0)

\* paren_balance == 0 and bracket_balance == 0 and brace_balance == 0
DelimiterPass(text) ==
    /\ Count(text, "(") - Count(text, ")") = 0
    /\ Count(text, "[") - Count(text, "]") = 0
    /\ Count(text, "{") - Count(text, "}") = 0

ValidateInit ==
    /\ file \in Scripts
    /\ pc = "start"
    /\ content = Unset /\ changes = Unset /\ printed = Unset
    /\ count_before = 0 /\ original_length = 0
    /\ delimiter_pass = Unset /\ checks = Unset
    /\ FdrIdle

\* lines 14-18: lines = f.readlines(); content = ''.join(lines)
ReadScript ==
    /\ pc = "start"
    /\ content' = file
    /\ pc' = "read"
    /\ UNCHANGED <<file, changes, printed, count_before, original_length, delimiter_pass, checks, fdr_vars>>

\* lines 34-45: the counts and delimiter_pass
CheckDelimiters ==
    /\ pc = "read"
    /\ delimiter_pass' = DelimiterPass(content)
    /\ pc' = "checked"
    /\ UNCHANGED <<file, content, changes, printed, count_before, original_length, checks, fdr_vars>>

\* line 222: 100*comment_lines/total_lines raises ZeroDivisionError on a
\* file without a line
RaiseZeroDivision ==
    /\ pc = "checked" /\ TotalLines(content) = 0
    /\ pc' = "raised"
    /\ UNCHANGED <<file, content, changes, printed, count_before, original_length, delimiter_pass, checks, fdr_vars>>

\* lines 384-414: checks['Delimiter Balance'] = delimiter_pass, printed as
\* PASS or FAIL and returned as delimiter_balanced
Summary ==
    /\ pc = "checked" /\ TotalLines(content) > 0
    /\ checks' = [name \in {"Delimiter Balance"} |-> delimiter_pass]
    /\ pc' = "done"
    /\ UNCHANGED <<file, content, changes, printed, count_before, original_length, delimiter_pass, fdr_vars>>

ValidateNext ==
    \/ ReadScript
    \/ CheckDelimiters
    \/ RaiseZeroDivision
    \/ Summary

ValidateSpec == ValidateInit /\ [][ValidateNext]_vars

(***************************************************************************)
(* Properties                                                              *)
(***************************************************************************)

Done == pc = "done"

Valid(j) == pvals[j] # NaN

\* every valid p-value lies in [0, 1]
InRange(p) == \A j \in 1..Len(p) : p[j] # NaN => FLeq(p[j], One)

\* the call fdr_bh(p_vals_1, 0.05) of TEST 1
ClassicCall ==
    /\ pvals = Lit(<<1, 8, 39, 41, 42, 60, 74, 205, 212, 216>>, 1000)
    /\ q = FDiv(50, 1000)

\* C1, as stated: on the classic example with q = 0.05 exactly the four
\* smallest p-values are flagged and the critical p-value is 0.041.
C1_FourSignificant ==
    (Done /\ ClassicCall) =>
        /\ h = [j \in 1..10 |-> j <= 4]
        /\ crit_p = FDiv(41, 1000)

\* C1, amended: on the classic example with q = 0.05 exactly the two smallest
\* p-values (ranks 1 and 2) are flagged and the critical p-value is 0.008.
C1_TwoSignificant ==
    (Done /\ ClassicCall) =>
        /\ h = [j \in 1..10 |-> j <= 2]
        /\ crit_p = FDiv(8, 1000)

C1_Witness == Done /\ ClassicCall /\ h[2] /\ ~h[3]

\* s read through the permutation pi of its positions
Permuted(s, pi) == [j \in 1..Len(s) |-> s[pi[j]]]

AllPerms(n) == {f \in [1..n -> 1..n] : \A a, b \in 1..n : f[a] = f[b] => a = b}

Transpositions(n) ==
    {[j \in 1..n |-> IF j = a THEN b ELSE IF j = b THEN a ELSE j] : a, b \in 1..n}

\* every permutation of an input of up to three entries; of a longer one
\* (the arrays of the test script) the exchanges of two positions, which
\* generate the others
PermsFor(n) == IF n <= 3 THEN AllPerms(n) ELSE Transpositions(n)

\* the results np.argsort may return inside fdr_bh(p, .)
ArgSortIn(p) == IF Len(ValidPvals(p)) = 0 THEN {<<>>} ELSE ArgSort(ValidPvals(p))

\* C2: running fdr_bh on a permutation of a p-value sequence (values in
\* [0, 1] or missing, ties allowed) returns the flags and the adjusted
\* p-values of the original run permuted in the same way, and the same
\* critical p-value.
C2_OrderPreservation ==
    (Done /\ InRange(pvals)) =>
        \A pi \in PermsFor(Len(pvals)) :
            \A idx \in ArgSortIn(Permuted(pvals, pi)) :
                FdrBh(Permuted(pvals, pi), q, idx) =
                    [h |-> Permuted(h, pi), crit_p |-> crit_p,
                     adj_p |-> Permuted(adj_p, pi)]

\* a finished run on an unsorted input with a tie, a flagged and an unflagged entry
C2_Witness ==
    /\ Done /\ InRange(pvals) /\ Len(pvals) = 3
    /\ \E a, b \in 1..Len(pvals) : a < b /\ Valid(a) /\ pvals[a] = pvals[b]
    /\ \E a, b \in 1..Len(pvals) : a < b /\ h[b] /\ Valid(a) /\ ~h[a]

\* s with x inserted at position pos
Inserted(s, pos, x) ==
    [j \in 1..(Len(s) + 1) |-> IF j < pos THEN s[j] ELSE IF j = pos THEN x ELSE s[j - 1]]

\* s without its entry at position pos
Removed(s, pos) == [j \in 1..(Len(s) - 1) |-> IF j < pos THEN s[j] ELSE s[j + 1]]

\* C3: with a missing entry inserted at any position of an input that has a
\* valid entry, the flag there is false, the adjusted value there is
\* undefined, and the flags and adjusted values elsewhere are those of the
\* run without it.
C3_MissingValue ==
    (Done /\ n_valid >= 1) =>
        \A pos \in 1..(Len(pvals) + 1) :
            LET r == FdrBh(Inserted(pvals, pos, NaN), q, sorted_idx)
            IN  /\ r.h[pos] = FALSE
                /\ r.adj_p[pos] = NaN
                /\ Removed(r.h, pos) = h
                /\ Removed(r.adj_p, pos) = adj_p

\* a finished run with a flagged and an unflagged valid entry
C3_Witness ==
    /\ Done /\ n_valid >= 2
    /\ \E a, b \in 1..Len(pvals) : h[a] /\ Valid(b) /\ ~h[b]

\* C4: for valid p-values in [0, 1], raw p_a <= raw p_b implies
\* adjusted p_a <= adjusted p_b; tied raw values get equal adjusted values.
C4_Monotone ==
    (Done /\ InRange(pvals)) =>
        \A a, b \in 1..Len(pvals) :
            (Valid(a) /\ Valid(b) /\ FLeq(pvals[a], pvals[b])) => FLeq(adj_p[a], adj_p[b])

\* a finished run in which the value (m / rank) * p of some rank exceeds the
\* adjusted value of the next rank, so that the minimum with it decides
C4_Witness ==
    /\ Done /\ InRange(pvals) /\ n_valid >= 2
    /\ \E k \in 1..(n_valid - 1) :
           FLess(adj_p_sorted[k + 1], Scaled(n_valid, k, sorted_pvals[k]))

\* C5, as stated: for every input, the empty and the all-missing one
\* included, the critical p-value is the largest raw p-value among the
\* flagged entries when a flag is true, and 0 when none is.
C5_CriticalValue ==
    Done =>
        IF \E j \in 1..Len(pvals) : h[j]
        THEN /\ \E j \in 1..Len(pvals) : h[j] /\ pvals[j] = crit_p
             /\ \A j \in 1..Len(pvals) : h[j] => FLeq(pvals[j], crit_p)
        ELSE crit_p = Zero

\* C6, as stated: for q in (0, 1], a critical p-value of 0 means that no flag
\* is true.
C6_ZeroMeansNone ==
    (Done /\ q # Zero /\ FLeq(q, One) /\ crit_p = Zero) =>
        \A j \in 1..Len(pvals) : ~h[j]

\* C7, as stated: for valid p-values in [0, 1] and q in (0, 1], a valid entry
\* is flagged if and only if its adjusted p-value is <= q.
C7_AdjustedDecides ==
    (Done /\ InRange(pvals) /\ q # Zero /\ FLeq(q, One)) =>
        \A j \in 1..Len(pvals) : Valid(j) => (h[j] <=> FLeq(adj_p[j], q))

\* no rank k of the sorted valid p-values has p(k) <= (k / m) * q
NoRankPasses ==
    \A k \in 1..n_valid : ~FLeq(sorted_pvals[k], Scaled(k, n_valid, q))

\* every valid p-value is greater than q
AllAboveQ == \A j \in 1..Len(pvals) : Valid(j) => FLess(q, pvals[j])

\* C8: with a valid entry and no sorted valid p-value <= its threshold
\* (k/m)*q, in particular when every valid p-value is > q, no entry is
\* flagged and the critical p-value is 0.
C8_AllNull ==
    (Done /\ n_valid >= 1 /\ (NoRankPasses \/ AllAboveQ)) =>
        /\ \A j \in 1..Len(pvals) : ~h[j]
        /\ crit_p = Zero

\* the call fdr_bh(p_vals_2, 0.05) of TEST 2, finished
C8_Witness ==
    /\ Done /\ AllAboveQ
    /\ pvals = Lit(<<6, 8, 10, 15, 20, 30, 40, 50, 60, 70, 80>>, 100)
    /\ q = FDiv(5, 100)

\* C9: when the largest valid p-value is <= q, every valid entry is flagged.
C9_AllSignificant ==
    (Done /\ \A j \in 1..Len(pvals) : Valid(j) => FLeq(pvals[j], q)) =>
        \A j \in 1..Len(pvals) : Valid(j) => h[j]

\* the call fdr_bh(p_vals_3, 0.05) of TEST 3, finished: the smaller ranks
\* are above the threshold of rank 1 and are flagged all the same
C9_Witness ==
    /\ Done
    /\ pvals = Lit(<<1, 2, 3, 4, 5, 6, 7, 8, 9, 10>>, 10000)
    /\ q = FDiv(500, 10000)
    /\ \A j \in 1..10 : h[j]

\* C10: with q = 0 a valid entry is flagged if and only if its raw p-value
\* is exactly 0.
C10_ZeroLevel ==
    (Done /\ q = Zero) =>
        \A j \in 1..Len(pvals) : Valid(j) => (h[j] <=> pvals[j] = Zero)

\* a finished run with q = 0, a p-value 0 and a valid p-value that is not 0
C10_Witness ==
    /\ Done /\ q = Zero
    /\ \E a, b \in 1..Len(pvals) : pvals[a] = Zero /\ h[a] /\ Valid(b) /\ pvals[b] # Zero

\* C11, as stated: for every input the flags and the adjusted p-values have
\* the length of the input, and every defined adjusted p-value, the one at
\* the largest rank included, is at most 1.0.
C11_LengthsAndBound ==
    Done =>
        /\ Len(h) = Len(pvals) /\ Len(adj_p) = Len(pvals)
        /\ \A j \in 1..Len(adj_p) : adj_p[j] # NaN => FLeq(adj_p[j], One)

\* C12: on an input of length 0 the call returns, for every q, with an
\* empty flags sequence and an empty adjusted p-value sequence.
C12_EmptyInput ==
    Len(pvals) = 0 =>
        /\ pc \in {"call", "done"}
        /\ pc = "call" => ENABLED ReturnEmpty
        /\ Done => h = <<>> /\ adj_p = <<>>

\* the call on the empty input has returned, with a q other than 0
C12_Witness == Done /\ Len(pvals) = 0 /\ q # Zero /\ h = <<>> /\ adj_p = <<>>

\* test_fdr.py, TEST 1: the reference scan from the last rank down for the
\* largest 1-indexed rank i with p[i] <= (i / m) * q; 0 when there is none
LargestI(p, qq) ==
    LET m == Len(p)
        passing == {k \in 1..m : FLeq(p[k], Scaled(k, m, qq))}
    IN  IF passing = {} THEN 0 ELSE CHOOSE k \in passing : \A l \in passing : l <= k

NaNFree(p) == \A j \in 1..Len(p) : p[j] # NaN

SortedAscending(p) == \A a, b \in 1..Len(p) : a <= b => FLeq(p[a], p[b])

\* C14: on a NaN-free input sorted ascending the number of flagged entries
\* is the rank k* the reference scan finds, the critical p-value is p(k*)
\* when k* > 0, and no entry beyond rank k* is flagged, ties included.
C14_CountIsLargestI ==
    (Done /\ NaNFree(pvals) /\ SortedAscending(pvals)) =>
        LET k == LargestI(pvals, q)
        IN  /\ Cardinality({j \in 1..Len(pvals) : h[j]}) = k
            /\ k > 0 => crit_p = pvals[k]
            /\ \A j \in (k + 1)..Len(pvals) : ~h[j]

\* a finished run on a sorted NaN-free input with two tied flagged entries
\* and an unflagged one after them
C14_Witness ==
    /\ Done /\ NaNFree(pvals) /\ SortedAscending(pvals)
    /\ \E a, b, c \in 1..Len(pvals) :
           a < b /\ b < c /\ pvals[a] = pvals[b] /\ h[a] /\ h[b] /\ ~h[c]

\* min(1, min over the ranks j >= k of (m / j) * p(j)), each rank searched
\* on its own
PerRankMin(sp, k) ==
    LET m == Len(sp)
        scaled == {Scaled(m, j, sp[j]) : j \in k..m}
    IN  FMin(One, CHOOSE x \in scaled : \A y \in scaled : FLeq(x, y))

\* C15: with m >= 1 valid p-values in [0, 1], the backward pass leaves at
\* every sorted rank k the value min(1, min over j >= k of (m / j) * p(j)).
C15_BackwardPass ==
    (Done /\ n_valid >= 1 /\ InRange(pvals)) =>
        \A k \in 1..n_valid : adj_p_sorted[k] = PerRankMin(sorted_pvals, k)

\* a finished run where the first rank takes its value from a later,
\* tied rank
C15_Witness ==
    /\ Done /\ n_valid >= 2 /\ InRange(pvals)
    /\ sorted_pvals[1] = sorted_pvals[2]
    /\ FLess(adj_p_sorted[1], FMin(One, Scaled(n_valid, 1, sorted_pvals[1])))

\* C13: whatever the content of the file and whichever patterns match, no
\* step of a run of remove_transition27.py changes the file on disk.
C13_DryRun == [][file' = file]_vars

\* a finished run in which all five patterns matched, so that the text in
\* memory differs from the file, and the report has been printed
C13_Witness ==
    /\ Done /\ Len(changes) = 5 /\ content # file
    /\ printed.notice = "DRY RUN - File not modified"

\* the delimiters of one kind are balanced: every closing one has an
\* earlier unmatched opening one, and no opening one is left unclosed
BalancedKind(text, open, close) ==
    /\ \A n \in 1..Len(text) :
           Count(SubSeq(text, 1, n), close) <= Count(SubSeq(text, 1, n), open)
    /\ Count(text, open) = Count(text, close)

Balanced(text) ==
    /\ BalancedKind(text, "(", ")")
    /\ BalancedKind(text, "[", "]")
    /\ BalancedKind(text, "{", "}")

\* C16, as stated: 'Delimiter Balance' is reported as PASS only when the
\* parentheses, the square brackets and the braces of the text are balanced.
C16_PassOnlyBalanced ==
    (Done /\ checks["Delimiter Balance"]) => Balanced(content)

====
